---- MODULE Spec2Model ----
(***************************************************************************)
(* Model of telerivet/service.py: the Service entity of the Telerivet      *)
(* Python client.  Every method of Service builds one request, hands it to *)
(* the API dispatcher (self._api.doRequest / self._api.newApiCursor) and   *)
(* wraps the answer.  The server is the environment; its behaviour is      *)
(* taken from what the docstrings of service.py document about it.         *)
(***************************************************************************)
EXTENDS Integers, Sequences, FiniteSets, TLC

\* ------------------------------------------------------------------ bounds
NumContacts == 2     \* contacts the caller of Spec works with
NumRecords == 3      \* contacts the caller of SpecCursor works with
MaxMsgs == 2         \* longest sent_messages list a response carries
MaxPageSize == 2     \* largest page_size a caller asks for

\* --------------------------------------------------------------- constants
DefaultPageSize == 50

Null == "null"
None == "None"
StateIds == {"q1", "q2"}
VarsVals == {{}, {<<"a", 1>>}}
EmptyVars == {}
MessageIds == {"m1", "m2"}
AllowedContexts == {"message", "contact", "project", "receipt"}
ContextValues == AllowedContexts \cup {"bogus"}
Names == {"poll", "survey"}
UpdatableFields == {"name", "active"}
Faults == {"none", "APIError"}

Contacts == 1..NumContacts
CursorContacts == 1..NumRecords
AllContacts == Contacts \cup CursorContacts

EmptyMap == [k \in {} |-> k]

VARIABLES
  srvStates,    \* server: contact id -> state data of this service
  srvService,   \* server: the stored fields of this service
  svc,          \* client: the Service entity (its data and its dirty set)
  last,         \* the most recent call of the caller and its outcome
  hist,         \* per contact: the last successful state-changing call
  cur,          \* client: the cursor returned by queryContactStates
  prevRun       \* the previous completed iteration over unchanged records

vars == <<srvStates, srvService, svc, last, hist, cur, prevRun>>

\* ------------------------------------------------------- typed value objects
Message(data) == [class |-> "Message", data |-> data]

ContactServiceState(data) == [class |-> "ContactServiceState", data |-> data]

Contact(c) == [id |-> c]

NoState(c) == [id |-> Null, vars |-> EmptyVars, contact_id |-> c]

\* ------------------------------------------------------------------ server
Server(states, service) == [states |-> states, service |-> service]

Failure(err, srv) == [ok |-> FALSE, err |-> err, data |-> None, srv |-> srv]

Success(data, srv) == [ok |-> TRUE, err |-> None, data |-> data, srv |-> srv]

NoFault == [fault |-> "none", invoke_result |-> EmptyMap, keep_vars |-> TRUE]

ServicePath(service) == <<"projects", service.project_id, "services", service.id>>

\* POST <base>: the fields sent replace the stored ones.
ServerSaveService(srv, params) ==
  LET updated == [f \in DOMAIN srv.service |->
                    IF f \in DOMAIN params THEN params[f] ELSE srv.service[f]]
  IN Success(updated, Server(srv.states, updated))

\* POST <base>/invoke: context is required and one of the allowed values, message_id
\* and contact_id are required in their contexts, an inactive service cannot be invoked.
ServerInvoke(srv, env, params) ==
  IF ~srv.service.active THEN Failure("APIError", srv)
  ELSE IF "context" \notin DOMAIN params THEN Failure("InvalidParameterError", srv)
  ELSE IF params.context \notin AllowedContexts THEN Failure("InvalidParameterError", srv)
  ELSE IF params.context = "message" /\ "message_id" \notin DOMAIN params
    THEN Failure("InvalidParameterError", srv)
  ELSE IF params.context = "contact" /\ "contact_id" \notin DOMAIN params
    THEN Failure("InvalidParameterError", srv)
  ELSE Success(env.invoke_result, srv)

\* GET <base>/states/<contact>: the state, or a placeholder with id null.
ServerGetState(srv, c) == Success(srv.states[c], srv)

\* POST <base>/states/<contact>: initializes or updates; a null id resets.
ServerSetState(srv, env, c, params) ==
  IF "id" \notin DOMAIN params THEN Failure("InvalidParameterError", srv)
  ELSE IF params.id = Null
    THEN Success(NoState(c), Server([srv.states EXCEPT ![c] = NoState(c)], srv.service))
  ELSE LET v == IF "vars" \in DOMAIN params THEN params.vars
                ELSE IF env.keep_vars THEN srv.states[c].vars ELSE EmptyVars
           new == [id |-> params.id, vars |-> v, contact_id |-> c]
       IN Success(new, Server([srv.states EXCEPT ![c] = new], srv.service))

\* DELETE <base>/states/<contact>: resets.
ServerResetState(srv, c) ==
  Success(NoState(c), Server([srv.states EXCEPT ![c] = NoState(c)], srv.service))

RECURSIVE StatesFrom(_, _, _)
StatesFrom(states, params, c) ==
  IF c > NumContacts /\ c > NumRecords THEN <<>>
  ELSE LET s == states[c]
           listed == s.id # Null /\ ("id" \in DOMAIN params => s.id = params.id)
       IN (IF listed THEN <<s>> ELSE <<>>) \o StatesFrom(states, params, c + 1)

\* The records of the listing: the states with a non-null id that pass the filter.
Matching(states, params) == StatesFrom(states, params, 1)

Min(a, b) == IF a < b THEN a ELSE b

\* GET <base>/states: one page of the listing and the marker of the next one.
ServerListStates(srv, params) ==
  LET all == Matching(srv.states, params)
      size == IF "page_size" \in DOMAIN params THEN params.page_size ELSE DefaultPageSize
      start == IF "marker" \in DOMAIN params THEN params.marker
               ELSE IF "offset" \in DOMAIN params THEN params.offset ELSE 0
      stop == Min(start + size, Len(all))
  IN Success([data |-> SubSeq(all, start + 1, stop),
              next_marker |-> IF stop < Len(all) THEN {stop} ELSE {}], srv)

ServerHandle(srv, env, req) ==
  LET n == Len(req.path) IN
  IF env.fault # "none" THEN Failure(env.fault, srv)
  ELSE IF n < 4 \/ SubSeq(req.path, 1, 4) # ServicePath(srv.service)
    THEN Failure("NotFoundError", srv)
  ELSE IF n = 4 /\ req.method = "POST" THEN ServerSaveService(srv, req.params)
  ELSE IF n = 5 /\ req.path[5] = "invoke" /\ req.method = "POST"
    THEN ServerInvoke(srv, env, req.params)
  ELSE IF n = 5 /\ req.path[5] = "states" /\ req.method = "GET"
    THEN ServerListStates(srv, req.params)
  ELSE IF n = 6 /\ req.path[5] = "states" /\ req.path[6] \in DOMAIN srv.states
    THEN IF req.method = "GET" THEN ServerGetState(srv, req.path[6])
         ELSE IF req.method = "POST" THEN ServerSetState(srv, env, req.path[6], req.params)
         ELSE IF req.method = "DELETE" THEN ServerResetState(srv, req.path[6])
         ELSE Failure("NotFoundError", srv)
  ELSE Failure("NotFoundError", srv)

\* -------------------------------------------------------------- dispatcher
Request(method, path, params) == [method |-> method, path |-> path, params |-> params]

doRequest(srv, env, method, path, params) ==
  [req |-> Request(method, path, params)] @@
  [resp |-> ServerHandle(srv, env, Request(method, path, params))]

\* What a method hands back to its caller: the requests it issued, the
\* dispatcher's answer to the last of them, and its return value or its error.
Returned(out, value) ==
  [requests |-> <<out.req>>, response |-> [ok |-> out.resp.ok, err |-> out.resp.err,
                                           data |-> out.resp.data],
   ok |-> TRUE, err |-> None, value |-> value, srv |-> out.resp.srv]

Raised(out) ==
  [requests |-> <<out.req>>, response |-> [ok |-> out.resp.ok, err |-> out.resp.err,
                                           data |-> out.resp.data],
   ok |-> FALSE, err |-> out.resp.err, value |-> None, srv |-> out.resp.srv]

\* ----------------------------------------------------------------- Service
getBaseApiPath(self) == <<"projects", self.data.project_id, "services", self.data.id>>

\* invoke with the sent messages collected in reverse order.
invoke_reversed(self, options, srv, env) ==
  LET out == doRequest(srv, env, "POST", getBaseApiPath(self) \o <<"invoke">>, options)
      invoke_result == out.resp.data
  IN IF ~out.resp.ok THEN Raised(out)
     ELSE IF "sent_messages" \in DOMAIN invoke_result
       THEN Returned(out, [k \in DOMAIN invoke_result |->
              IF k = "sent_messages"
                THEN [i \in 1..Len(invoke_result.sent_messages) |->
                        Message(invoke_result.sent_messages[
                                  Len(invoke_result.sent_messages) + 1 - i])]
                ELSE invoke_result[k]])
     ELSE Returned(out, invoke_result)

\* invoke that checks the context itself and sends nothing when it is not allowed.
invoke_validating(self, options, srv, env) ==
  LET out == doRequest(srv, env, "POST", getBaseApiPath(self) \o <<"invoke">>, options)
      invoke_result == out.resp.data
  IN IF "context" \notin DOMAIN options \/ options.context \notin AllowedContexts
       THEN [requests |-> <<>>, response |-> [ok |-> TRUE, err |-> None, data |-> None],
             ok |-> FALSE, err |-> "InvalidParameterError", value |-> None, srv |-> srv]
     ELSE IF ~out.resp.ok THEN Raised(out)
     ELSE IF "sent_messages" \in DOMAIN invoke_result
       THEN Returned(out, [k \in DOMAIN invoke_result |->
              IF k = "sent_messages"
                THEN [i \in 1..Len(invoke_result.sent_messages) |->
                        Message(invoke_result.sent_messages[i])]
                ELSE invoke_result[k]])
     ELSE Returned(out, invoke_result)

\* invoke that swallows a failure of the request and returns an empty mapping.
invoke_suppressing(self, options, srv, env) ==
  LET out == doRequest(srv, env, "POST", getBaseApiPath(self) \o <<"invoke">>, options)
      invoke_result == out.resp.data
  IN IF ~out.resp.ok THEN Returned(out, EmptyMap)
     ELSE IF "sent_messages" \in DOMAIN invoke_result
       THEN Returned(out, [k \in DOMAIN invoke_result |->
              IF k = "sent_messages"
                THEN [i \in 1..Len(invoke_result.sent_messages) |->
                        Message(invoke_result.sent_messages[i])]
                ELSE invoke_result[k]])
     ELSE Returned(out, invoke_result)

invoke(self, options, srv, env) ==
  LET out == doRequest(srv, env, "POST", getBaseApiPath(self) \o <<"invoke">>, options)
      invoke_result == out.resp.data
  IN IF ~out.resp.ok THEN Raised(out)
     ELSE IF "sent_messages" \in DOMAIN invoke_result
       THEN Returned(out, [k \in DOMAIN invoke_result |->
              IF k = "sent_messages"
                THEN [i \in 1..Len(invoke_result.sent_messages) |->
                        Message(invoke_result.sent_messages[i])]
                ELSE invoke_result[k]])
     ELSE Returned(out, invoke_result)

\* getContactState that treats the null-id placeholder as a missing resource.
getContactState_strict(self, contact, srv, env) ==
  LET out == doRequest(srv, env, "GET",
                       getBaseApiPath(self) \o <<"states", contact.id>>, EmptyMap)
  IN IF ~out.resp.ok THEN Raised(out)
     ELSE IF out.resp.data.id = Null
       THEN [Raised(out) EXCEPT !.err = "NotFoundError"]
     ELSE Returned(out, ContactServiceState(out.resp.data))

getContactState(self, contact, srv, env) ==
  LET out == doRequest(srv, env, "GET",
                       getBaseApiPath(self) \o <<"states", contact.id>>, EmptyMap)
  IN IF ~out.resp.ok THEN Raised(out)
     ELSE Returned(out, ContactServiceState(out.resp.data))

\* setContactState that sends the id alone.
setContactState_idOnly(self, contact, options, srv, env) ==
  LET out == doRequest(srv, env, "POST",
                       getBaseApiPath(self) \o <<"states", contact.id>>,
                       [k \in DOMAIN options \cap {"id"} |-> options[k]])
  IN IF ~out.resp.ok THEN Raised(out)
     ELSE Returned(out, ContactServiceState(out.resp.data))

\* setContactState that leaves null-valued options out of the request.
setContactState_dropNull(self, contact, options, srv, env) ==
  LET out == doRequest(srv, env, "POST",
                       getBaseApiPath(self) \o <<"states", contact.id>>,
                       [k \in {x \in DOMAIN options : x # "id" \/ options[x] # Null} |->
                          options[k]])
  IN IF ~out.resp.ok THEN Raised(out)
     ELSE Returned(out, ContactServiceState(out.resp.data))

setContactState(self, contact, options, srv, env) ==
  LET out == doRequest(srv, env, "POST",
                       getBaseApiPath(self) \o <<"states", contact.id>>, options)
  IN IF ~out.resp.ok THEN Raised(out)
     ELSE Returned(out, ContactServiceState(out.resp.data))

\* resetContactState that issues the GET of getContactState.
resetContactState_get(self, contact, srv, env) ==
  LET out == doRequest(srv, env, "GET",
                       getBaseApiPath(self) \o <<"states", contact.id>>, EmptyMap)
  IN IF ~out.resp.ok THEN Raised(out)
     ELSE Returned(out, ContactServiceState(out.resp.data))

resetContactState(self, contact, srv, env) ==
  LET out == doRequest(srv, env, "DELETE",
                       getBaseApiPath(self) \o <<"states", contact.id>>, EmptyMap)
  IN IF ~out.resp.ok THEN Raised(out)
     ELSE Returned(out, ContactServiceState(out.resp.data))

\* ------------------------------------------------------------------ Cursor
NoCursor ==
  [open |-> FALSE, item_cls |-> None, path |-> <<>>, params |-> EmptyMap,
   fetched |-> FALSE, data |-> <<>>, pos |-> 0, next_marker |-> {}, err |-> None,
   done |-> FALSE, fetches |-> 0, items |-> <<>>, stable |-> TRUE, asked |-> EmptyMap]

\* A new cursor is unfetched: it holds the listing's path and the filter options.
newApiCursor(item_cls, path, options) ==
  [NoCursor EXCEPT !.open = TRUE, !.item_cls = item_cls, !.path = path,
                   !.params = options]

\* One GET of the listing with the stored options, from the marker of the last
\* page when there is one; stores the page and the marker of the next.
loadNextPage(c, srv, env) ==
  LET params == IF c.next_marker = {} THEN c.params
                ELSE c.params @@ [marker |-> CHOOSE m \in c.next_marker : TRUE]
      out == doRequest(srv, env, "GET", c.path, params)
  IN IF ~out.resp.ok THEN [c EXCEPT !.err = out.resp.err, !.fetches = @ + 1]
     ELSE [c EXCEPT !.fetched = TRUE, !.data = out.resp.data.data, !.pos = 0,
                    !.next_marker = out.resp.data.next_marker, !.fetches = @ + 1]

\* next(): one buffered item, after fetching when the buffer is exhausted and the
\* server announced more; the end when nothing is left.
Cursor_next(c, srv, env) ==
  LET c1 == IF ~c.fetched \/ (c.pos >= Len(c.data) /\ c.next_marker # {})
              THEN loadNextPage(c, srv, env) ELSE c
  IN IF c1.err # None THEN [c1 EXCEPT !.done = TRUE]
     ELSE IF c1.pos < Len(c1.data)
       THEN [c1 EXCEPT !.pos = @ + 1,
                       !.items = Append(@, [class |-> c1.item_cls,
                                            data |-> c1.data[c1.pos + 1]])]
     ELSE [c1 EXCEPT !.done = TRUE]

\* Everything an iteration over the cursor yields against an unchanging server.
RECURSIVE Cursor_all(_, _)
Cursor_all(c, srv) ==
  IF c.done THEN c.items ELSE Cursor_all(Cursor_next(c, srv, NoFault), srv)

\* queryContactStates with a misspelt listing path.
queryContactStates_badPath(self, options) ==
  newApiCursor("ContactServiceState", getBaseApiPath(self) \o <<"state">>, options)

\* queryContactStates that does not pass its options on.
queryContactStates_noOptions(self, options) ==
  newApiCursor("ContactServiceState", getBaseApiPath(self) \o <<"states">>, EmptyMap)

queryContactStates(self, options) ==
  newApiCursor("ContactServiceState", getBaseApiPath(self) \o <<"states">>, options)

\* ------------------------------------------------------------------ Entity
\* Setting an updatable field stores the value and marks the field dirty.
Entity_set(self, f, v) ==
  [data |-> [self.data EXCEPT ![f] = v], dirty |-> self.dirty \cup {f}]

\* save() sends only the dirty fields to the entity's base path and clears the
\* dirty set on success; with nothing dirty it sends nothing.
Entity_save(self, path, srv, env) ==
  IF self.dirty = {}
    THEN [requests |-> <<>>, response |-> [ok |-> TRUE, err |-> None, data |-> None],
          ok |-> TRUE, err |-> None, value |-> None, srv |-> srv, self |-> self]
  ELSE LET out == doRequest(srv, env, "POST", path, [f \in self.dirty |-> self.data[f]])
       IN IF ~out.resp.ok THEN Raised(out) @@ [self |-> self]
          ELSE Returned(out, None) @@ [self |-> [self EXCEPT !.dirty = {}]]

\* save that sends every updatable field, changed or not.
save_allFields(self, srv, env) ==
  Entity_save([self EXCEPT !.dirty = UpdatableFields], getBaseApiPath(self), srv, env)

save(self, srv, env) == Entity_save(self, getBaseApiPath(self), srv, env)

\* ---------------------------------------------------------------- the calls
Env(fault, result, keep) == [fault |-> fault, invoke_result |-> result, keep_vars |-> keep]

OtherKeys == [return_value |-> "stop"]

InvokeResults ==
  LET lists == UNION {[1..n -> {[id |-> m] : m \in MessageIds}] : n \in 0..MaxMsgs}
  IN {OtherKeys} \cup {OtherKeys @@ [sent_messages |-> l] : l \in lists}

InvokeOptions ==
  {[context |-> c] : c \in ContextValues}
  \cup {[context |-> "message", event |-> "incoming_message", message_id |-> "m1"],
        [context |-> "contact", contact_id |-> 1],
        [event |-> "default"]}

SetOptions ==
  {[id |-> i] : i \in StateIds \cup {Null}}
  \cup {[id |-> i, vars |-> v] : i \in StateIds \cup {Null}, v \in VarsVals}
  \cup {[vars |-> v] : v \in VarsVals}

CursorOptions ==
  {[page_size |-> p] : p \in 1..MaxPageSize}
  \cup {[page_size |-> p, id |-> "q1"] : p \in 1..MaxPageSize}
  \cup {[page_size |-> 1, offset |-> 1]}

FieldValues(f) == IF f = "name" THEN Names ELSE BOOLEAN

CallRecord(op, c, options, out, fault) ==
  [op |-> op, contact |-> c, options |-> options, before |-> srvStates[c],
   dirty_before |-> svc.dirty, fault |-> fault,
   requests |-> out.requests, response |-> out.response,
   ok |-> out.ok, err |-> out.err, value |-> out.value]

NoCall ==
  [op |-> "none", contact |-> 1, options |-> EmptyMap, before |-> NoState(1),
   dirty_before |-> {}, fault |-> "none", requests |-> <<>>,
   response |-> [ok |-> TRUE, err |-> None, data |-> None],
   ok |-> TRUE, err |-> None, value |-> None]

NoRun == [valid |-> FALSE, params |-> EmptyMap, items |-> <<>>]

Here == Server(srvStates, srvService)

\* What a call leaves on the server.  A change of the records under an open
\* cursor means the cursor no longer iterates over the records it started on.
ServerEffect(out) ==
  /\ srvStates' = out.srv.states
  /\ srvService' = out.srv.service
  /\ cur' = IF cur.open /\ out.srv.states # srvStates
              THEN [cur EXCEPT !.stable = FALSE] ELSE cur
  /\ prevRun' = IF out.srv.states # srvStates THEN NoRun ELSE prevRun

Invoke(options, result, fault) ==
  LET out == invoke(svc, options, Here, Env(fault, result, TRUE))
  IN /\ last' = CallRecord("invoke", 1, options, out, fault)
     /\ ServerEffect(out)
     /\ UNCHANGED <<svc, hist>>

GetContactStateStep(c, fault) ==
  /\ ServerEffect(getContactState(svc, Contact(c), Here, Env(fault, EmptyMap, TRUE)))
  /\ UNCHANGED svc

GetContactState(c, fault) ==
  LET out == getContactState(svc, Contact(c), Here, Env(fault, EmptyMap, TRUE))
  IN /\ GetContactStateStep(c, fault)
     /\ last' = CallRecord("get", c, EmptyMap, out, fault)
     /\ UNCHANGED hist

SetContactStateStep(c, options, fault, keep) ==
  /\ ServerEffect(setContactState(svc, Contact(c), options, Here,
                                  Env(fault, EmptyMap, keep)))
  /\ UNCHANGED svc

SetContactState(c, options, fault, keep) ==
  LET out == setContactState(svc, Contact(c), options, Here, Env(fault, EmptyMap, keep))
  IN /\ SetContactStateStep(c, options, fault, keep)
     /\ last' = CallRecord("set", c, options, out, fault)
     /\ hist' = IF ~out.ok THEN hist
                ELSE [hist EXCEPT ![c] = IF options.id = Null THEN "cleared" ELSE "set"]

ResetContactStateStep(c, fault) ==
  /\ ServerEffect(resetContactState(svc, Contact(c), Here, Env(fault, EmptyMap, TRUE)))
  /\ UNCHANGED svc

ResetContactState(c, fault) ==
  LET out == resetContactState(svc, Contact(c), Here, Env(fault, EmptyMap, TRUE))
  IN /\ ResetContactStateStep(c, fault)
     /\ last' = CallRecord("reset", c, EmptyMap, out, fault)
     /\ hist' = IF ~out.ok THEN hist ELSE [hist EXCEPT ![c] = "cleared"]

SetField(f, v) ==
  /\ svc' = Entity_set(svc, f, v)
  /\ last' = [NoCall EXCEPT !.op = "setattr"]
  /\ UNCHANGED <<srvStates, srvService, hist, cur, prevRun>>

Save(fault) ==
  LET out == save(svc, Here, Env(fault, EmptyMap, TRUE))
  IN /\ last' = CallRecord("save", 1, EmptyMap, out, fault)
     /\ svc' = out.self
     /\ ServerEffect(out)
     /\ UNCHANGED hist

\* queryContactStates hands out a new cursor, which here remembers the options the
\* caller asked for; a finished iteration over unchanged records is kept for
\* comparison with the next one.
QueryContactStates(options) ==
  /\ cur' = [queryContactStates(svc, options) EXCEPT !.asked = options]
  /\ prevRun' = IF cur.open /\ cur.done /\ cur.stable /\ cur.err = None
                  THEN [valid |-> TRUE, params |-> cur.asked, items |-> cur.items]
                  ELSE prevRun
  /\ UNCHANGED <<srvStates, srvService, svc, last, hist>>

CursorNext ==
  /\ cur.open
  /\ ~cur.done
  /\ cur' = Cursor_next(cur, Here, NoFault)
  /\ UNCHANGED <<srvStates, srvService, svc, last, hist, prevRun>>

Init ==
  /\ srvStates = [c \in AllContacts |-> NoState(c)]
  /\ srvService = [id |-> "SV1", project_id |-> "PJ1", name |-> "poll", active |-> TRUE]
  /\ svc = [data |-> srvService, dirty |-> {}]
  /\ last = NoCall
  /\ hist = [c \in AllContacts |-> "none"]
  /\ cur = NoCursor
  /\ prevRun = NoRun

\* The per-contact state operations.
Next ==
  \/ \E c \in Contacts, f \in Faults : GetContactState(c, f)
  \/ \E c \in Contacts, o \in SetOptions, f \in Faults :
       \E k \in (IF "vars" \in DOMAIN o THEN {TRUE} ELSE BOOLEAN) :
         SetContactState(c, o, f, k)
  \/ \E c \in Contacts, f \in Faults : ResetContactState(c, f)

Spec == Init /\ [][Next]_vars

\* The service itself: invoking it, changing its fields, saving them.
NextService ==
  \/ \E o \in InvokeOptions, f \in Faults :
       \E r \in (IF f = "none" THEN InvokeResults ELSE {OtherKeys}) : Invoke(o, r, f)
  \/ \E f \in UpdatableFields : \E v \in FieldValues(f) : SetField(f, v)
  \/ \E f \in Faults : Save(f)

SpecService == Init /\ [][NextService]_vars

\* Every operation that reaches the server, each on one input, with the server
\* free to fail any request.
NextFaults ==
  \/ \E o \in {[context |-> "project"], [context |-> "bogus"]}, f \in Faults :
       Invoke(o, OtherKeys @@ [sent_messages |-> <<[id |-> "m1"]>>], f)
  \/ \E f \in Faults : GetContactState(1, f)
  \/ \E o \in {[id |-> "q1", vars |-> {<<"a", 1>>}], [vars |-> {}]}, f \in Faults :
       SetContactState(1, o, f, TRUE)
  \/ \E f \in Faults : ResetContactState(1, f)
  \/ \E f \in UpdatableFields : \E v \in FieldValues(f) : SetField(f, v)
  \/ \E f \in Faults : Save(f)

SpecFaults == Init /\ [][NextFaults]_vars

\* Iterating over the listing while contacts enter and leave it.
NextCursor ==
  \/ \E c \in CursorContacts, i \in StateIds :
       SetContactStateStep(c, [id |-> i], "none", TRUE) /\ UNCHANGED <<last, hist>>
  \/ \E c \in CursorContacts :
       ResetContactStateStep(c, "none") /\ UNCHANGED <<last, hist>>
  \/ \E o \in CursorOptions : QueryContactStates(o)
  \/ CursorNext

SpecCursor == Init /\ [][NextCursor]_vars

\* ------------------------------------------------------------------ claims
InvokePath == getBaseApiPath(svc) \o <<"invoke">>

\* C1: when the response of invoke has a sent_messages list, the returned mapping has
\* the same keys, a sent_messages list of the same length whose i-th entry is the
\* Message built from the i-th raw entry, and every other key unchanged; without
\* sent_messages the response is returned as it is.
C1_SentMessagesMaterialized ==
  (last.op = "invoke" /\ last.ok) =>
    LET raw == last.response.data
        val == last.value
    IN IF "sent_messages" \in DOMAIN raw
         THEN /\ DOMAIN val = DOMAIN raw
              /\ Len(val.sent_messages) = Len(raw.sent_messages)
              /\ \A i \in 1..Len(raw.sent_messages) :
                   val.sent_messages[i] = [class |-> "Message",
                                           data |-> raw.sent_messages[i]]
              /\ \A k \in DOMAIN raw \ {"sent_messages"} : val[k] = raw[k]
         ELSE val = raw

C1_Witness ==
  /\ last.op = "invoke"
  /\ last.ok
  /\ "sent_messages" \in DOMAIN last.response.data
  /\ Len(last.response.data.sent_messages) = 2
  /\ last.response.data.sent_messages[1] # last.response.data.sent_messages[2]
  /\ last.value.sent_messages[2].class = "Message"

\* C2 as stated: for a context outside message, contact, project, receipt, invoke
\* fails on the client and no POST to /invoke reaches the dispatcher.
C2_ValidatesBeforeSending ==
  (/\ last.op = "invoke"
   /\ "context" \in DOMAIN last.options
   /\ last.options.context \notin AllowedContexts)
  => (last.requests = <<>> /\ ~last.ok)

\* C2 as amended: invoke does not check the context on the client; for every context
\* value it sends exactly one POST to /invoke carrying the caller's options unchanged,
\* and it fails exactly when the server reports a failure, with the server's error.
C2_ForwardsEveryContext ==
  last.op = "invoke" =>
    /\ last.requests = <<Request("POST", InvokePath, last.options)>>
    /\ last.ok = last.response.ok
    /\ ~last.ok => last.err = last.response.err

C2_Witness ==
  /\ last.op = "invoke"
  /\ "context" \in DOMAIN last.options
  /\ last.options.context = "bogus"
  /\ Len(last.requests) = 1
  /\ last.requests[1].params.context = "bogus"
  /\ last.err = "InvalidParameterError"

\* C3: getContactState on a contact with no state (never set, or reset since) never
\* raises NotFoundError, and unless the server fails the request it returns a
\* ContactServiceState whose id is null.
C3_PlaceholderNotAnError ==
  (last.op = "get" /\ last.before.id = Null) =>
    /\ last.err # "NotFoundError"
    /\ last.fault = "none" =>
         /\ last.ok
         /\ last.value.class = "ContactServiceState"
         /\ last.value.data.id = Null

C3_Witness ==
  /\ last.op = "get"
  /\ last.ok
  /\ last.before.id = Null
  /\ hist[last.contact] = "cleared"
  /\ last.value.data.id = Null

\* C4: a getContactState that directly follows a successful setContactState of the
\* same contact with a non-null id and a vars mapping returns that id and those vars.
C4_SetThenGetRoundTrip ==
  [][(/\ last.op = "set"
      /\ last.ok
      /\ "vars" \in DOMAIN last.options
      /\ last.options.id # Null
      /\ last'.op = "get"
      /\ last'.contact = last.contact
      /\ last'.fault = "none")
     => (/\ last'.ok
         /\ last'.value.data.id = last.options.id
         /\ last'.value.data.vars = last.options.vars)]_vars

C4_Witness ==
  /\ last.op = "get"
  /\ last.ok
  /\ last.value.data.id = "q1"
  /\ last.value.data.vars = {<<"a", 1>>}
  /\ \E c \in Contacts \ {last.contact} : hist[c] = "cleared"

\* C5: setContactState with a null id has the effect of resetContactState from the
\* same state: the same outcome, the same returned data, the same state on the
\* server, in which the contact has no state.
C5_SetNullIsReset ==
  (/\ last.op = "set"
   /\ "id" \in DOMAIN last.options
   /\ last.options.id = Null
   /\ last.fault = "none")
  => LET pre == Server([srvStates EXCEPT ![last.contact] = last.before], srvService)
         r == resetContactState(svc, Contact(last.contact), pre, NoFault)
     IN /\ last.ok = r.ok
        /\ last.ok => last.value = r.value
        /\ srvStates = r.srv.states
        /\ srvStates[last.contact].id = Null

C5_Witness ==
  /\ last.op = "set"
  /\ last.options = [id |-> Null]
  /\ last.ok
  /\ last.before.id = "q1"
  /\ srvStates[last.contact].id = Null

\* C6: resetContactState succeeds from any state of the contact and leaves it without
\* a state; a second resetContactState right after it succeeds too, returns the same
\* data and leaves the server as the first one did.
C6_ResetIdempotent ==
  /\ []((last.op = "reset" /\ last.fault = "none") =>
          /\ last.ok
          /\ last.value.data.id = Null
          /\ srvStates[last.contact] = NoState(last.contact))
  /\ [][(/\ last.op = "reset"
         /\ last.ok
         /\ last'.op = "reset"
         /\ last'.contact = last.contact
         /\ last'.fault = "none")
        => (/\ last'.ok
            /\ last'.before.id = Null
            /\ last'.value = last.value
            /\ srvStates' = srvStates)]_vars

C6_Witness ==
  /\ last.op = "reset"
  /\ last.ok
  /\ last.before.id = Null
  /\ hist[last.contact] = "cleared"
  /\ srvStates[last.contact].id = Null

ListingOptions == {EmptyMap, [page_size |-> 1]}

Listed(items, c) == \E i \in 1..Len(items) : items[i].data.contact_id = c

\* C7: whatever get, set and reset calls were made, the listing of queryContactStates
\* holds no state with a null id, and holds a contact exactly when the last successful
\* state-changing call on it was a setContactState with a non-null id.
C7_NullIdNeverListed ==
  \A o \in ListingOptions :
    LET items == Cursor_all(queryContactStates(svc, o), Here)
    IN /\ \A i \in 1..Len(items) : items[i].data.id # Null
       /\ \A c \in Contacts : Listed(items, c) <=> hist[c] = "set"

C7_Witness ==
  /\ last.op = "get"
  /\ last.ok
  /\ last.value.data.id = Null
  /\ hist[last.contact] = "cleared"
  /\ ~Listed(Cursor_all(queryContactStates(svc, EmptyMap), Here), last.contact)
  /\ \E c \in Contacts : Listed(Cursor_all(queryContactStates(svc, EmptyMap), Here), c)

\* The records a cursor with these options is to yield, straight from the server's
\* states: those with a non-null id that pass the filter, past the offset.
Expected(states, params) ==
  LET all == Matching(states, params)
      off == IF "offset" \in DOMAIN params THEN params.offset ELSE 0
  IN [i \in 1..(Len(all) - off) |->
        [class |-> "ContactServiceState", data |-> all[i + off]]]

IsPrefix(a, b) == Len(a) <= Len(b) /\ \A i \in 1..Len(a) : a[i] = b[i]

\* C8: over unchanged records a cursor yields each record of the listing once, in the
\* server's order, and then ends; with page_size 1 over 3 records that takes exactly 3
\* page fetches; a second cursor with the same options yields the same sequence.
C8_CursorYieldsEachRecordOnce ==
  (cur.open /\ cur.stable) =>
    LET want == Expected(srvStates, cur.asked)
    IN /\ cur.err = None
       /\ IsPrefix(cur.items, want)
       /\ cur.done =>
            /\ cur.items = want
            /\ (cur.asked = [page_size |-> 1] /\ Len(want) = 3) => cur.fetches = 3
            /\ (prevRun.valid /\ prevRun.params = cur.asked) =>
                 prevRun.items = cur.items

C8_Witness ==
  /\ cur.open
  /\ cur.stable
  /\ cur.done
  /\ cur.asked = [page_size |-> 1]
  /\ Len(cur.items) = 3
  /\ cur.fetches = 3
  /\ prevRun.valid
  /\ prevRun.params = cur.asked

\* C9: a call issues at most one request, and when the server fails that request the
\* call ends with the server's error and returns nothing.
C9_FailuresSurfaceUnchanged ==
  last.op \in {"invoke", "get", "set", "reset", "save"} =>
    /\ Len(last.requests) <= 1
    /\ (Len(last.requests) = 1 /\ ~last.response.ok) =>
         (~last.ok /\ last.err = last.response.err)
    /\ (Len(last.requests) = 1 /\ last.fault # "none") =>
         (~last.ok /\ last.err = last.fault)
    /\ ~last.ok => last.value = None

C9_Witness ==
  /\ last.op = "invoke"
  /\ Len(last.requests) = 1
  /\ ~last.ok
  /\ last.err = "InvalidParameterError"
  /\ \E c \in Contacts : hist[c] = "set"
  /\ svc.dirty # {}

\* C10: save with an empty dirty set sends nothing (or an empty request) and does not
\* fail; with dirty fields it sends one POST to the service's path with exactly the
\* dirty fields and their values, and after a successful save the dirty set is empty.
C10_SaveSendsOnlyDirtyFields ==
  last.op = "save" =>
    /\ last.dirty_before = {} =>
         /\ last.ok
         /\ \/ last.requests = <<>>
            \/ (Len(last.requests) = 1 /\ DOMAIN last.requests[1].params = {})
    /\ last.dirty_before # {} =>
         /\ Len(last.requests) = 1
         /\ last.requests[1].method = "POST"
         /\ last.requests[1].path = getBaseApiPath(svc)
         /\ DOMAIN last.requests[1].params = last.dirty_before
         /\ \A f \in last.dirty_before : last.requests[1].params[f] = svc.data[f]
         /\ last.ok => svc.dirty = {}

C10_Witness ==
  /\ last.op = "save"
  /\ last.ok
  /\ last.dirty_before = {"name"}
  /\ svc.dirty = {}
  /\ srvService.name = "survey"
====
